---- MODULE Spec2Model ----
(***************************************************************************)
(* A model of app.py: the Flask service with /predict_box_score,           *)
(* /analyze_bi and /health, its two core functions predict_box_score and   *)
(* analyze_bi, and the completion client call_grok3.                       *)
(*                                                                         *)
(* Texts are sequences of one-character strings.  The 13-character marker  *)
(* "<|separator|>" is one element, SEP: it holds no whitespace and no      *)
(* character of a number and cannot overlap itself, so strip(), split()    *)
(* and float() treat it as the code does.  Error messages and f-strings are sequences of their parts,  *)
(* so a prefix added by a wrapper is a longer sequence.                    *)
(* Scores are integers in hundredths (4.33 is 433); the texts of the model *)
(* carry at most two fractional digits, as the prompt asks for.            *)
(***************************************************************************)
EXTENDS Integers, Sequences, FiniteSets, TLC

\* Longest upstream text of ClientSpec (a bound of the model).
MaxLen == 3

\* for _ in range(5)
NumSamples == 5
\* call_grok3(prompt, max_tokens=50, temperature=0)
ScoreMaxTokens == 50
ScoreTemperature == 0
\* call_grok3(prompt, max_tokens=1000, temperature=0.7); temperatures in tenths
BiMaxTokens == 1000
BiTemperature == 7
\* "seed": 42
Seed == 42
\* data_context[:1000]
ContextPrefix == 1000
\* 1 <= score_float <= 5, in hundredths
MinScore == 100
MaxScore == 500
\* response.raise_for_status() raises from status 400 on
FirstErrorStatus == 400

SEP == "<|separator|>"
Space == {" ", "\n"}
Digits == {"0", "1", "2", "3", "4", "5", "6", "7", "8", "9"}

DigitVal(c) ==
    CASE c = "0" -> 0 [] c = "1" -> 1 [] c = "2" -> 2 [] c = "3" -> 3
      [] c = "4" -> 4 [] c = "5" -> 5 [] c = "6" -> 6 [] c = "7" -> 7
      [] c = "8" -> 8 [] c = "9" -> 9

DigitChar(n) ==
    CASE n = 0 -> "0" [] n = 1 -> "1" [] n = 2 -> "2" [] n = 3 -> "3"
      [] n = 4 -> "4" [] n = 5 -> "5" [] n = 6 -> "6" [] n = 7 -> "7"
      [] n = 8 -> "8" [] n = 9 -> "9"

----------------------------------------------------------------------------
(* str.strip() and str.split(marker)[0] *)

RECURSIVE LStrip(_)
LStrip(s) ==
    IF Len(s) > 0 /\ Head(s) \in Space THEN LStrip(Tail(s)) ELSE s

RECURSIVE RStrip(_)
RStrip(s) ==
    IF Len(s) > 0 /\ s[Len(s)] \in Space
    THEN RStrip(SubSeq(s, 1, Len(s) - 1))
    ELSE s

Strip(s) == RStrip(LStrip(s))

\* s.split('<|separator|>')[0]: what precedes the first marker, or all of s
SplitFirst(s) ==
    LET at == {i \in 1..Len(s) : s[i] = SEP}
    IN  IF at = {} THEN s
        ELSE SubSeq(s, 1, (CHOOSE i \in at : \A j \in at : i <= j) - 1)

\* A mutant of CleanText: the marker is not cut off.
CleanTextNoSplit(text) == Strip(Strip(text))

\* response_text = text.strip(); cleaned_text = response_text.split(SEP)[0].strip()
CleanText(text) == Strip(SplitFirst(Strip(text)))

\* A mutant of IsEmptyText: the emptiness check is missing.
IsEmptyTextNever(text) == FALSE

\* not cleaned_text
IsEmptyText(text) == Len(text) = 0

----------------------------------------------------------------------------
(* float(score_text) on the characters of the model: an optional sign,     *)
(* digits with an optional point (Python accepts "4." and ".5"), or nan in *)
(* any case; float() strips whitespace itself.  Exponents, underscores and *)
(* inf are not among the characters of the model.                          *)

RECURSIVE ToInt(_)
ToInt(ds) ==
    IF Len(ds) = 0 THEN 0
    ELSE 10 * ToInt(SubSeq(ds, 1, Len(ds) - 1)) + DigitVal(ds[Len(ds)])

AllDigits(s) == \A i \in 1..Len(s) : s[i] \in Digits

IsNanWord(s) ==
    /\ Len(s) = 3
    /\ s[1] \in {"n", "N"}
    /\ s[2] \in {"a", "A"}
    /\ s[3] \in {"n", "N"}

\* The unsigned part: [kind, val], val in hundredths.  A number of more than
\* two fractional digits is no whole number of hundredths (kind "fine"); no
\* text of the model is one.
ParseUnsigned(s) ==
    LET dots == {i \in 1..Len(s) : s[i] = "."}
    IN  IF IsNanWord(s) THEN [kind |-> "nan", val |-> 0]
        ELSE IF Cardinality(dots) > 1 THEN [kind |-> "err", val |-> 0]
        ELSE IF dots = {}
        THEN IF Len(s) > 0 /\ AllDigits(s)
             THEN [kind |-> "num", val |-> 100 * ToInt(s)]
             ELSE [kind |-> "err", val |-> 0]
        ELSE LET d == CHOOSE i \in dots : TRUE
                 ip == SubSeq(s, 1, d - 1)
                 fp == SubSeq(s, d + 1, Len(s))
             IN  IF ~(AllDigits(ip) /\ AllDigits(fp)) \/ Len(ip) + Len(fp) = 0
                 THEN [kind |-> "err", val |-> 0]
                 ELSE IF Len(fp) > 2 THEN [kind |-> "fine", val |-> 0]
                 ELSE [kind |-> "num",
                       val |-> 100 * ToInt(ip)
                               + (IF Len(fp) = 1 THEN 10 * ToInt(fp) ELSE ToInt(fp))]

\* float(text): kind "num" with val, "nan", or "err" (ValueError)
ParseFloat(text) ==
    LET s == Strip(text)
    IN  IF Len(s) > 0 /\ Head(s) \in {"+", "-"}
        THEN LET u == ParseUnsigned(Tail(s))
             IN  IF u.kind = "num" /\ Head(s) = "-"
                 THEN [kind |-> "num", val |-> 0 - u.val]
                 ELSE u
        ELSE ParseUnsigned(s)

\* A mutant of InRange: the upper limit is not checked.
InRangeNoMax(p) == p.kind = "num" /\ MinScore <= p.val

\* 1 <= score_float <= 5 (false for nan)
InRange(p) == p.kind = "num" /\ MinScore <= p.val /\ p.val <= MaxScore

----------------------------------------------------------------------------
(* sum(scores) / len(scores) and f"{avg_score:.2f}" *)

RECURSIVE SumSeq(_)
SumSeq(s) == IF Len(s) = 0 THEN 0 ELSE Head(s) + SumSeq(Tail(s))

RECURSIVE NatToSeq(_)
NatToSeq(n) ==
    IF n < 10 THEN <<DigitChar(n)>>
    ELSE Append(NatToSeq(n \div 10), DigitChar(n % 10))

\* total / count hundredths, to the nearest hundredth; a tie goes to the even
\* one (the scores are >= 0 here)
RoundDiv(total, count) ==
    LET q == total \div count
        r == total % count
    IN  IF 2 * r > count THEN q + 1
        ELSE IF 2 * r < count THEN q
        ELSE IF q % 2 = 0 THEN q ELSE q + 1

\* A mutant of FormatScore: the mean is cut, not rounded.
FormatScoreTruncated(total, count) ==
    LET h == total \div count
    IN  NatToSeq(h \div 100) \o <<".", DigitChar((h % 100) \div 10), DigitChar(h % 10)>>

\* f"{sum(scores) / len(scores):.2f}"
FormatScore(total, count) ==
    LET h == RoundDiv(total, count)
    IN  NatToSeq(h \div 100) \o <<".", DigitChar((h % 100) \div 10), DigitChar(h % 10)>>

----------------------------------------------------------------------------
(* Values of a JSON body and the strings built from them.  A string is     *)
(* [kind, text, len]: its content by name and its length in characters, so *)
(* that the slice data_context[:1000] is modelled by what it keeps.        *)

Str(text, len) == [kind |-> "str", text |-> text, len |-> len]
NullValue == [kind |-> "null", text |-> "None", len |-> 4]

NoHistoricalData == Str("No historical data provided", 27)
NoDataContext == Str("No data context provided", 24)

\* A parsed JSON body: an object or an array (members: its keys or elements),
\* a number n, or null.  ctx tells the value under "data_context".
Body(kind, members, ctx, n) ==
    [kind |-> kind, members |-> members, ctx |-> ctx, n |-> n]

ScalarBodies ==
    {Body("null", {}, "absent", 0), Body("number", {}, "absent", 0),
     Body("number", {}, "absent", 5)}

BoxScoreBodies ==
    ScalarBodies
    \cup {Body("object", m, "absent", 0) : m \in SUBSET {"historical_data", "future_box_info"}}
    \cup {Body("array", m, "absent", 0) : m \in {{}, {"future_box_info"}}}

BiBodies ==
    ScalarBodies
    \cup {Body("object", m, "absent", 0) : m \in {{}, {"query"}}}
    \cup {Body("object", m \cup {"data_context"}, c, 0) :
            m \in {{}, {"query"}}, c \in {"short", "long", "null"}}
    \cup {Body("array", m, "absent", 0) : m \in {{}, {"query"}}}

\* not data
Falsy(body) ==
    CASE body.kind = "null" -> TRUE
      [] body.kind = "number" -> body.n = 0
      [] OTHER -> body.members = {}

\* key in data: raises TypeError for a number
InBody(body, key) ==
    IF body.kind = "number" THEN "TypeError"
    ELSE IF key \in body.members THEN "yes" ELSE "no"

\* data[key] of an object
FieldValue(body, key) ==
    CASE key = "historical_data" -> Str("H", 40)
      [] key = "future_box_info" -> Str("F", 30)
      [] key = "query" -> Str("Q", 20)
      [] key = "data_context" ->
            CASE body.ctx = "short" -> Str("D", 10)
              [] body.ctx = "long" -> Str("D", 1500)
              [] OTHER -> NullValue

\* A mutant of GetOrDefault: the field is read without a default (a missing
\* key reads as None).
GetNoDefault(body, key, default) ==
    IF key \in body.members THEN FieldValue(body, key) ELSE NullValue

\* data.get(key, default) of an object
GetOrDefault(body, key, default) ==
    IF key \in body.members THEN FieldValue(body, key) ELSE default

\* value[:k] of a string
Slice(value, k) == [value EXCEPT !.len = IF value.len < k THEN value.len ELSE k]

NoPrompt == [template |-> "none", args |-> <<>>]

\* the f-string of predict_box_score
ScorePrompt(historical_data, future_box_info) ==
    [template |-> "box_score", args |-> <<historical_data, future_box_info>>]

\* the f-string of analyze_bi
BiPrompt(data_context, query) ==
    [template |-> "bi", args |-> <<Slice(data_context, ContextPrefix), query>>]

----------------------------------------------------------------------------
(* call_grok3 *)

Payload(prompt, max_tokens, temperature, key) ==
    [model |-> "grok-3", prompt |-> prompt, temperature |-> temperature,
     max_tokens |-> max_tokens, seed |-> Seed, auth |-> key]

\* A mutant of ScorePayload: call_grok3(prompt) with its defaults
\* (max_tokens=500, temperature=0.7).
ScorePayloadDefaults(prompt, key) == Payload(prompt, 500, 7, key)

\* call_grok3(prompt, max_tokens=50, temperature=0)
ScorePayload(prompt, key) == Payload(prompt, ScoreMaxTokens, ScoreTemperature, key)

\* call_grok3(prompt, max_tokens=1000, temperature=0.7)
BiPayload(prompt, key) == Payload(prompt, BiMaxTokens, BiTemperature, key)

\* What the upstream service answers: no answer at all (requests.post raises),
\* or a status with a body that is no JSON, an object without "choices", with
\* "choices": [], with a first choice without "text", with "text": null, or
\* with a text.
Answer(kind, status, text) == [kind |-> kind, status |-> status, text |-> text]
NoUpstream == Answer("none", 0, <<>>)

Failures ==
    {Answer("neterr", 0, <<>>), Answer("text", 401, <<>>), Answer("text", 500, <<"4">>),
     Answer("notjson", 200, <<>>), Answer("nochoices", 200, <<>>),
     Answer("emptychoices", 200, <<>>), Answer("notext", 200, <<>>),
     Answer("nulltext", 200, <<>>)}

Upstream(texts) == Failures \cup {Answer("text", 200, t) : t \in texts}

EmptyResponse == <<"Grok 3 returned an empty response">>

\* A mutant of WrapClient: the cause is dropped from the message.
WrapClientBare(msg) == <<"Error calling Grok 3">>

\* Exception(f"Error calling Grok 3: {str(e)}")
WrapClient(msg) == <<"Error calling Grok 3: ">> \o msg

Raise(msg) == [ok |-> FALSE, text |-> <<>>, raised |-> msg, msg |-> WrapClient(msg)]

\* The body of call_grok3 after requests.post: [ok, text] when it returns,
\* [raised, msg] (the first exception's message, and the message of the
\* exception that leaves the function) when it raises.
call_grok3(up) ==
    IF up.kind = "neterr" THEN Raise(<<"ConnectionError">>)
    ELSE IF up.status >= FirstErrorStatus
    THEN Raise(<<"HTTPError ">> \o NatToSeq(up.status))
    ELSE IF up.kind = "notjson" THEN Raise(<<"JSONDecodeError">>)
    ELSE IF up.kind = "emptychoices" THEN Raise(<<"list index out of range">>)
    ELSE IF up.kind = "nulltext"
    THEN Raise(<<"'NoneType' object has no attribute 'strip'">>)
    ELSE LET first == IF up.kind = "text" THEN up.text ELSE <<>>
             cleaned_text == CleanText(first)
         IN  IF IsEmptyText(cleaned_text) THEN Raise(EmptyResponse)
             ELSE [ok |-> TRUE, text |-> cleaned_text, raised |-> <<>>, msg |-> <<>>]

----------------------------------------------------------------------------
(* The process: its start, and one request at a time through a handler.    *)

VARIABLES
    startMode,   \* "main": python app.py (__name__ == '__main__'); "wsgi": the
                 \* module is imported and its app object is served by a WSGI host
    apiKey,      \* os.getenv('XAI_API_KEY'): "absent" (None), "empty" or "set"
    server,      \* "boot", "failed" (the start raised) or "serving"
    request,     \* the request being handled, or the last one handled
    pc,          \* where the handler stands; "idle" between requests
    prompt,      \* the prompt of the core function
    iter,        \* iterations of the sampling loop started
    scores,      \* the list scores
    score_text,  \* the text the last call_grok3 returned
    samples,     \* the texts call_grok3 returned to the loop, in order
    upstream,    \* the upstream answer call_grok3 is returning from
    calls,       \* the payloads posted upstream for this request, in order
    raised,      \* the first exception raised for this request
    response     \* the HTTP response to this request

vars ==
    <<startMode, apiKey, server, request, pc, prompt, iter, scores, score_text,
      samples, upstream, calls, raised, response>>

\* The upstream texts of Spec: scores, padded and cut texts, texts that are
\* no number, numbers out of range, and texts that clean to nothing.
ValidTexts ==
    {<<"1">>, <<"5", ".", "0", "0">>, <<"4", ".", "2">>, <<"4", ".", "3", "3">>}

PaddedTexts ==
    {<<" ", "4", ".", "2", "\n">>, <<"4", ".", "3", "3", " ", SEP, "x">>,
     <<"1", SEP, "5", SEP>>}

InvalidTexts ==
    {<<"N", "/", "A">>, <<"n", "a", "n">>, <<"4", ".", "2", " ", "x">>,
     <<"5", ".", "0", "1">>, <<"0", ".", "9", "9">>, <<"5", ".", "5", "0">>,
     <<"-", "4", ".", "2">>}

EmptyTexts == {<<>>, <<" ", "\n">>, <<SEP, "4", ".", "2">>, <<" ", SEP>>}

Texts == ValidTexts \cup PaddedTexts \cup InvalidTexts \cup EmptyTexts

\* The upstream texts of ClientSpec: every text of at most MaxLen characters.
Alphabet == {" ", "\n", "4", ".", "N", SEP}
AllTexts == UNION {[1..n -> Alphabet] : n \in 0..MaxLen}

Request(endpoint, body) == [endpoint |-> endpoint, body |-> body]
NoRequest == Request("none", Body("null", {}, "absent", 0))

Response(status, key, value) == [status |-> status, key |-> key, value |-> value]
NoResponse == Response(0, "none", <<>>)

Error(where, msg) == [where |-> where, msg |-> msg]
NoError == Error("none", <<>>)

\* Exception(f"Error in box score simulation: {str(e)}")
WrapPredict(msg) == <<"Error in box score simulation: ">> \o msg

\* Exception(f"Error in BI analysis: {str(e)}")
WrapAnalyze(msg) == <<"Error in BI analysis: ">> \o msg

\* ValueError(f"Invalid score format: {score_text}")
InvalidScore(text) == <<"Invalid score format: ">> \o text

\* return jsonify({'error': str(e)}), 500
Error500(msg) == Response(500, "error", msg)

\* A mutant of LoopDone: the loop stops one sample early.
LoopDoneEarly(i) == i >= NumSamples - 1

\* range(5) is used up
LoopDone(i) == i >= NumSamples

Init ==
    /\ startMode \in {"main", "wsgi"}
    /\ apiKey \in {"absent", "empty", "set"}
    /\ server = "boot"
    /\ request = NoRequest
    /\ pc = "idle"
    /\ prompt = NoPrompt
    /\ iter = 0
    /\ scores = <<>>
    /\ score_text = <<>>
    /\ samples = <<>>
    /\ upstream = NoUpstream
    /\ calls = <<>>
    /\ raised = NoError
    /\ response = NoResponse

\* The module is loaded; under __main__ the key is checked before app.run().
Startup ==
    /\ server = "boot"
    /\ server' = IF startMode = "main" /\ apiKey \in {"absent", "empty"}
                 THEN "failed" ELSE "serving"
    /\ UNCHANGED <<startMode, apiKey, request, pc, prompt, iter, scores, score_text,
                   samples, upstream, calls, raised, response>>

\* A request is taken: what every handler starts from.
Accept(req) ==
    /\ server = "serving"
    /\ pc = "idle"
    /\ request' = req
    /\ iter' = 0
    /\ scores' = <<>>
    /\ score_text' = <<>>
    /\ samples' = <<>>
    /\ upstream' = NoUpstream
    /\ calls' = <<>>
    /\ UNCHANGED <<startMode, apiKey, server>>

\* The handler answers at once.
Answered(resp, err) ==
    /\ pc' = "idle"
    /\ prompt' = NoPrompt
    /\ raised' = err
    /\ response' = resp

\* The handler enters its core function.
Enter(at, p) ==
    /\ pc' = at
    /\ prompt' = p
    /\ raised' = NoError
    /\ response' = NoResponse

\* GET /health
health_check ==
    /\ Accept(Request("/health", Body("null", {}, "absent", 0)))
    /\ Answered(Response(200, "status", <<"healthy">>), NoError)

\* POST /predict_box_score, up to the call of predict_box_score
box_score ==
    \E body \in BoxScoreBodies :
        /\ Accept(Request("/predict_box_score", body))
        /\ IF Falsy(body)
           THEN Answered(Response(400, "error", <<"Missing future box info">>), NoError)
           ELSE IF InBody(body, "future_box_info") = "TypeError"
           THEN Answered(Error500(<<"argument of type 'int' is not iterable">>),
                         Error("handler", <<"argument of type 'int' is not iterable">>))
           ELSE IF InBody(body, "future_box_info") = "no"
           THEN Answered(Response(400, "error", <<"Missing future box info">>), NoError)
           ELSE IF body.kind # "object"
           THEN Answered(Error500(<<"'list' object has no attribute 'get'">>),
                         Error("handler", <<"'list' object has no attribute 'get'">>))
           ELSE Enter("sample_call",
                      ScorePrompt(GetOrDefault(body, "historical_data", NoHistoricalData),
                                  FieldValue(body, "future_box_info")))

\* One iteration of the loop of predict_box_score, up to the return of call_grok3
sample_call ==
    /\ pc = "sample_call"
    /\ ~LoopDone(iter)
    /\ \E up \in Upstream(Texts) :
         LET r == call_grok3(up)
         IN  /\ iter' = iter + 1
             /\ calls' = Append(calls, ScorePayload(prompt, apiKey))
             /\ upstream' = up
             /\ IF r.ok
                THEN /\ score_text' = r.text
                     /\ samples' = Append(samples, r.text)
                     /\ pc' = "sample_parse"
                     /\ UNCHANGED <<raised, response>>
                ELSE /\ score_text' = score_text
                     /\ samples' = samples
                     /\ pc' = "idle"
                     /\ raised' = Error("client", r.raised)
                     /\ response' = Error500(WrapPredict(r.msg))
    /\ UNCHANGED <<startMode, apiKey, server, request, prompt, scores>>

\* The rest of the iteration: float(), the range check, scores.append
sample_parse ==
    /\ pc = "sample_parse"
    /\ LET score_float == ParseFloat(score_text)
       IN  IF score_float.kind = "err"
           THEN /\ pc' = "idle"
                /\ raised' = Error("estimator",
                                   <<"could not convert string to float: ">> \o score_text)
                /\ response' = Error500(WrapPredict(InvalidScore(score_text)))
                /\ scores' = scores
           ELSE IF ~InRange(score_float)
           THEN /\ pc' = "idle"
                /\ raised' = Error("estimator", <<"Score out of range">>)
                /\ response' = Error500(WrapPredict(InvalidScore(score_text)))
                /\ scores' = scores
           ELSE /\ pc' = IF LoopDone(iter) THEN "check" ELSE "sample_call"
                /\ scores' = Append(scores, score_float.val)
                /\ UNCHANGED <<raised, response>>
    /\ upstream' = NoUpstream
    /\ UNCHANGED <<startMode, apiKey, server, request, prompt, iter, score_text,
                   samples, calls>>

\* After the loop: the emptiness check, the mean, the answer of the handler
predict_finish ==
    /\ pc = "check"
    /\ pc' = "idle"
    /\ IF Len(scores) = 0
       THEN /\ raised' = Error("estimator", <<"No valid scores collected">>)
            /\ response' = Error500(WrapPredict(<<"No valid scores collected">>))
       ELSE /\ raised' = raised
            /\ response' = Response(200, "predicted_box_score",
                                    FormatScore(SumSeq(scores), Len(scores)))
    /\ UNCHANGED <<startMode, apiKey, server, request, prompt, iter, scores, score_text,
                   samples, upstream, calls>>

\* POST /analyze_bi, up to the call of call_grok3 in analyze_bi
bi_analysis ==
    \E body \in BiBodies :
        /\ Accept(Request("/analyze_bi", body))
        /\ IF Falsy(body)
           THEN Answered(Response(400, "error", <<"Missing query">>), NoError)
           ELSE IF InBody(body, "query") = "TypeError"
           THEN Answered(Error500(<<"argument of type 'int' is not iterable">>),
                         Error("handler", <<"argument of type 'int' is not iterable">>))
           ELSE IF InBody(body, "query") = "no"
           THEN Answered(Response(400, "error", <<"Missing query">>), NoError)
           ELSE IF body.kind # "object"
           THEN Answered(Error500(<<"'list' object has no attribute 'get'">>),
                         Error("handler", <<"'list' object has no attribute 'get'">>))
           ELSE LET data_context == GetOrDefault(body, "data_context", NoDataContext)
                IN  IF data_context.kind # "str"
                    THEN Answered(
                           Error500(WrapAnalyze(<<"'NoneType' object is not subscriptable">>)),
                           Error("insight", <<"'NoneType' object is not subscriptable">>))
                    ELSE Enter("bi_call", BiPrompt(data_context, FieldValue(body, "query")))

\* analyze_bi from its call of call_grok3 on, and the answer of the handler
analyze_call(texts) ==
    /\ pc = "bi_call"
    /\ pc' = "idle"
    /\ \E up \in Upstream(texts) :
         LET r == call_grok3(up)
         IN  /\ calls' = Append(calls, BiPayload(prompt, apiKey))
             /\ upstream' = up
             /\ score_text' = r.text
             /\ IF r.ok
                THEN /\ raised' = raised
                     /\ response' = Response(200, "analysis", r.text)
                ELSE /\ raised' = Error("client", r.raised)
                     /\ response' = Error500(WrapAnalyze(r.msg))
    /\ UNCHANGED <<startMode, apiKey, server, request, prompt, iter, scores, samples>>

Next ==
    \/ Startup
    \/ health_check
    \/ box_score
    \/ sample_call
    \/ sample_parse
    \/ predict_finish
    \/ bi_analysis
    \/ analyze_call(Texts)

Spec == Init /\ [][Next]_vars

\* The client alone, on every short text: a server started with its key, and
\* /analyze_bi, which hands the client's text on as it is.
ClientInit ==
    /\ Init
    /\ startMode = "main"
    /\ apiKey = "set"

ClientNext ==
    \/ Startup
    \/ bi_analysis
    \/ analyze_call(AllTexts)

ClientSpec == ClientInit /\ [][ClientNext]_vars

----------------------------------------------------------------------------
(* What the claims speak of, said without the operators of the model.      *)

Answering == pc = "idle" /\ response.status # 0
InPredict == request.endpoint = "/predict_box_score"
InAnalyze == request.endpoint = "/analyze_bi"

\* The key is a field of the JSON object body.
HasField(body, key) == body.kind = "object" /\ key \in body.members

\* What precedes the first marker of t.
BeforeMarker(t) ==
    LET free == {k \in 0..Len(t) : \A i \in 1..k : t[i] # SEP}
    IN  SubSeq(t, 1, CHOOSE k \in free : \A j \in free : j <= k)

\* c is p without its leading and trailing whitespace.
IsTrimOf(c, p) ==
    \E i \in 0..Len(p) : \E j \in i..Len(p) :
        /\ c = SubSeq(p, i + 1, j)
        /\ \A k \in 1..i : p[k] \in Space
        /\ \A k \in (j + 1)..Len(p) : p[k] \in Space
        /\ Len(c) > 0 => c[1] \notin Space /\ c[Len(c)] \notin Space

\* An upstream answer with a success status and a first choice with a text.
GaveText(up) == up.kind = "text" /\ up.status < 400

\* The text is empty, whitespace only, or has nothing before the marker.
EmptyText(t) == \A i \in 1..Len(BeforeMarker(t)) : t[i] \in Space

\* The sample is a number of [1, 5].
IsScore(t) ==
    /\ ParseFloat(t).kind = "num"
    /\ 100 <= ParseFloat(t).val
    /\ ParseFloat(t).val <= 500

\* The samples, in hundredths, summed.
RECURSIVE Total(_)
Total(ts) == IF Len(ts) = 0 THEN 0 ELSE ParseFloat(Head(ts)).val + Total(Tail(ts))

\* v reads X.XX, and no number of two decimals is nearer to total / 5.
IsMeanOfFive(v, total) ==
    /\ Len(v) >= 4
    /\ v[Len(v) - 2] = "."
    /\ AllDigits(SubSeq(v, 1, Len(v) - 3)) /\ AllDigits(SubSeq(v, Len(v) - 1, Len(v)))
    /\ LET h == 100 * ToInt(SubSeq(v, 1, Len(v) - 3)) + ToInt(SubSeq(v, Len(v) - 1, Len(v)))
           d == 5 * h - total
       IN  -5 <= 2 * d /\ 2 * d <= 5

\* C1: when the 5 samples of an estimate are all numbers of [1, 5], the answer
\* of /predict_box_score is 200 and its predicted_box_score is the mean of
\* those 5 samples, to the nearest hundredth, written with two decimals.
C1_MeanOfFiveSamples ==
    (/\ InPredict /\ Answering
     /\ Len(samples) = 5
     /\ \A i \in 1..5 : IsScore(samples[i]))
    => /\ response.status = 200
       /\ response.key = "predicted_box_score"
       /\ IsMeanOfFive(response.value, Total(samples))

\* C1's case: 5 valid samples whose mean is no whole number of hundredths and
\* rounds up.
C1_Witness ==
    /\ InPredict /\ Answering
    /\ Len(samples) = 5
    /\ \A i \in 1..5 : IsScore(samples[i])
    /\ Total(samples) % 5 = 3
    /\ response.status = 200

\* C2: a sample that is no number, or a number outside [1, 5], at any place
\* 1..5, is the last sample and the last call of the estimate (no retry, no
\* further call), is never averaged, and the answer is the error
\* "Invalid score format: <sample>" with no score.
C2_InvalidSampleAborts ==
    \A i \in 1..Len(samples) :
        ~IsScore(samples[i])
        => /\ InPredict
           /\ i = Len(samples)
           /\ Len(calls) = i
           /\ Len(scores) = i - 1
           /\ pc \in {"sample_parse", "idle"}
           /\ pc = "idle"
              => response =
                   Response(500, "error",
                            <<"Error in box score simulation: ", "Invalid score format: ">>
                            \o samples[i])

\* C2's case: four samples were accepted and the fifth, out of range, ended
\* the estimate.
C2_Witness ==
    /\ Answering
    /\ Len(samples) = 5
    /\ samples[5] = <<"5", ".", "0", "1">>
    /\ response.status = 500

\* C3: /analyze_bi with a query and no data_context puts the placeholder
\* "No data context provided" into the prompt, posts once (temperature 0.7,
\* 1000 tokens), and answers 200 with the cleaned upstream text when the
\* upstream text is not empty.
C3_PlaceholderContext ==
    (InAnalyze /\ HasField(request.body, "query")
     /\ ~HasField(request.body, "data_context"))
    => /\ pc \in {"bi_call", "idle"}
       /\ pc = "bi_call"
          => /\ calls = <<>>
             /\ prompt.args[1] = [kind |-> "str", text |-> "No data context provided",
                                  len |-> 24]
       /\ pc = "idle"
          => /\ Len(calls) = 1
             /\ calls[1].prompt.template = "bi"
             /\ calls[1].prompt.args[1] = [kind |-> "str", text |-> "No data context provided",
                                           len |-> 24]
             /\ calls[1].temperature = 7 /\ calls[1].max_tokens = 1000
             /\ (GaveText(upstream) /\ ~EmptyText(upstream.text))
                => /\ response.status = 200
                   /\ response.key = "analysis"
                   /\ IsTrimOf(response.value, BeforeMarker(upstream.text))

\* C3's case: no data_context, and an upstream text with padding and a marker.
C3_Witness ==
    /\ InAnalyze /\ Answering
    /\ request.body.members = {"query"}
    /\ upstream.text = <<"4", ".", "3", "3", " ", SEP, "x">>
    /\ response = Response(200, "analysis", <<"4", ".", "3", "3">>)

CoreErrors == {"client", "estimator", "insight"}

\* C4 as the spec states it: the error field of the 500 answer is the message
\* of the error that was raised in the core.
C4_MessageUnchanged ==
    (pc = "idle" /\ raised.where \in CoreErrors)
    => response = Response(500, "error", raised.msg)

\* C4, amended: an error raised in the core is answered with 500, and the
\* error field is the message with the prefix of every function it passed
\* ("Error calling Grok 3: ", then "Error in box score simulation: " or
\* "Error in BI analysis: "); for a rejected sample the message is replaced by
\* "Invalid score format: <sample>".
C4_MessageWrapped ==
    (pc = "idle" /\ raised.where \in CoreErrors)
    => /\ response.status = 500
       /\ response.key = "error"
       /\ LET outer == IF InPredict THEN "Error in box score simulation: "
                       ELSE "Error in BI analysis: "
          IN  CASE raised.where = "client" ->
                     response.value = <<outer, "Error calling Grok 3: ">> \o raised.msg
                [] raised.where = "insight" ->
                     response.value = <<outer>> \o raised.msg
                [] raised.where = "estimator" ->
                     response.value = <<outer, "Invalid score format: ">> \o score_text

\* C4's case: the client failed on an upstream status in an estimate.
C4_Witness ==
    /\ InPredict /\ Answering
    /\ raised = Error("client", <<"HTTPError ", "4", "0", "1">>)
    /\ iter = 2

\* C5: an upstream text that is empty, whitespace only or has nothing before
\* the marker makes the client fail with the empty-response error; in an
\* estimate no parsing of that sample follows and the answer is not the
\* invalid-score-format error.
C5_EmptyBeforeParsing ==
    (GaveText(upstream) /\ EmptyText(upstream.text))
    => /\ pc = "idle"
       /\ raised = Error("client", <<"Grok 3 returned an empty response">>)
       /\ Len(samples) = Len(scores)
       /\ response =
            Response(500, "error",
                     <<IF InPredict THEN "Error in box score simulation: "
                       ELSE "Error in BI analysis: ",
                       "Error calling Grok 3: ", "Grok 3 returned an empty response">>)

\* C5's case: the third sample of an estimate has nothing before the marker.
C5_Witness ==
    /\ InPredict /\ Answering
    /\ iter = 3
    /\ upstream = Answer("text", 200, <<SEP, "4", ".", "2">>)

\* C6: a POST whose body does not contain future_box_info (query, for
\* /analyze_bi), as a key or otherwise, is answered with 400 and the
\* missing-field message, not with 200 or 500.
C6_MissingField400 ==
    /\ (InPredict /\ Answering /\ "future_box_info" \notin request.body.members)
       => response = Response(400, "error", <<"Missing future box info">>)
    /\ (InAnalyze /\ Answering /\ "query" \notin request.body.members)
       => response = Response(400, "error", <<"Missing query">>)

\* C7: without the credential the server never serves, however it is started.
C7_FailFast == apiKey = "absent" => server # "serving"

\* C8: an estimate posts at most 5 times, one call after another (call k + 1
\* only after sample k is accepted), each with temperature 0, 50 tokens and the
\* same prompt; a successful estimate has posted exactly 5 times, and one that
\* failed at its k-th call or sample has posted exactly k times.
C8_FiveSequentialCalls ==
    InPredict
    => /\ Len(calls) <= 5
       /\ \A k \in 1..Len(calls) :
            /\ calls[k].temperature = 0
            /\ calls[k].max_tokens = 50
            /\ calls[k].prompt = calls[1].prompt
            /\ calls[k].prompt.template = "box_score"
       /\ Len(calls) = Len(scores) + (IF pc = "sample_parse" THEN 1 ELSE 0)
                                   + (IF pc = "idle" /\ response.status = 500
                                         /\ raised.where \in CoreErrors THEN 1 ELSE 0)
       /\ response.status = 200 => Len(calls) = 5
       /\ pc = "check" => Len(calls) = 5

\* C8's case: a successful estimate.
C8_Witness ==
    /\ InPredict /\ Answering
    /\ response.status = 200
    /\ Len(calls) = 5

\* C9: at the emptiness check the list holds exactly 5 scores of [1, 5], and
\* the no-valid-scores error is never raised.
C9_FiveScoresAtCheck ==
    /\ pc = "check"
       => /\ Len(scores) = 5
          /\ \A i \in 1..Len(scores) : 100 <= scores[i] /\ scores[i] <= 500
    /\ raised.msg # <<"No valid scores collected">>

\* C9's case: control is at the emptiness check.
C9_Witness == pc = "check" /\ scores[5] = 100

\* C10: a text the client returns is not empty, holds no marker and is the
\* trimmed part of the first choice's text before its first marker; a
\* non-success status, a missing first choice or text, and a text that cleans
\* to nothing end in a failure.
C10_CleanedText ==
    (InAnalyze /\ pc = "idle" /\ Len(calls) = 1)
    => /\ response.status \in {200, 500}
       /\ response.status = 200
          => /\ GaveText(upstream)
             /\ Len(response.value) > 0
             /\ \A i \in 1..Len(response.value) : response.value[i] # SEP
             /\ IsTrimOf(response.value, BeforeMarker(upstream.text))
       /\ (~GaveText(upstream) \/ EmptyText(upstream.text))
          => response.status = 500 /\ raised.where = "client"

\* C10's case: a text with padding on both sides and a marker is returned cut.
C10_Witness ==
    /\ InAnalyze /\ Answering
    /\ upstream.text = <<" ", "4", SEP>>
    /\ response = Response(200, "analysis", <<"4">>)

====
